---- MODULE Spec2Model ----
(***************************************************************************)
(* cargo-attach: locate the most recently modified binary or example of    *)
(* the current package and hand control to `probe-rs attach`.              *)
(*                                                                         *)
(* Two entry points are modelled, as the sources hold both:                *)
(*   "attach"       src/src/lib.rs  (with src/src/conf.rs)                 *)
(*   "actual_main"  src/src/main.rs (self-contained, called by main)       *)
(*                                                                         *)
(* Strings the code takes apart (runner command lines) are sequences of    *)
(* atoms: a word, a blank " " or a quote "'".  Option<T> is a sequence of  *)
(* length 0 (None) or 1 (Some).                                            *)
(***************************************************************************)
EXTENDS Naturals, Sequences, FiniteSets

\* entry       which entry point runs: "attach" or "actual_main"
\* args        the parsed command line (args.rs Args)
\* cfgFile     .cargo/config.toml on disk: its state and the table it parses to
\* tree        the entries below the build output root
\* pc          the position of the run in attach / actual_main / main
\* package     metadata.root_package(), once queried
\* config      the loaded configuration (Option<Table>)
\* filters     binary names, build mode and build target, once resolved
\* probe_args  the arguments to forward
\* executable  what find_executable returned
\* error       the Err the run returned, <<>> while there is none
\* argv        the command exec was called with
\* trace       the outside operations performed so far, in order
\* stderr, exitCode   what main printed and returned
VARIABLES entry, args, cfgFile, pc, package, config, filters, probe_args,
          tree, executable, error, argv, trace, stderr, exitCode

vars == <<entry, args, cfgFile, pc, package, config, filters, probe_args,
          tree, executable, error, argv, trace, stderr, exitCode>>

\* ------------------------------------------------------------ bounds
MaxFiles == 3
MaxMtime == 2
MaxEntries == 2

\* ------------------------------------------------------------ values
None == <<>>
Some(x) == <<x>>

Ok(v) == [ok |-> TRUE, val |-> v, err |-> <<>>]
Err(m) == [ok |-> FALSE, val |-> <<>>, err |-> m]

THUMB == "thumbv7em-none-eabihf"
RISCV == "riscv32imac-unknown-none-elf"

\* toml values: a string, a table, or any other scalar/array.
NoRunner == [kind |-> "absent", str |-> <<>>]
OtherRunner == [kind |-> "other", str |-> <<>>]
StrRunner(s) == [kind |-> "string", str |-> s]

\* runner command lines, as atoms
RUN_STM32 == <<"probe-rs", " ", "run", " ", "--chip", " ", "STM32">>
RUN_NRF52 == <<"probe-rs", " ", "run", " ", "--chip", " ", "'", "nRF52", " ", "DK", "'">>
RUN_UNBALANCED == <<"probe-rs", " ", "run", " ", "--chip", " ", "'", "STM32">>
RUN_BARE == <<"probe-rs", " ", "run">>
RUN_GDB == <<"gdb", " ", "-q">>

PROBE_RS_RUN == <<"probe-rs", " ", "run", " ">>

\* ------------------------------------------------------------ conf.rs
\* str::strip_prefix: Some(rest) when s starts with p, else None.
strip_prefix(s, p) ==
    IF Len(s) >= Len(p) /\ SubSeq(s, 1, Len(p)) = p
    THEN Some(SubSeq(s, Len(p) + 1, Len(s)))
    ELSE None

\* shlex::split over atoms: blanks separate words, a quote opens or closes a
\* quoted stretch in which blanks are kept; None when a quote is left open.
RECURSIVE shlex_scan(_, _, _, _, _, _)
shlex_scan(s, i, cur, inWord, inQuote, out) ==
    IF i > Len(s)
    THEN IF inQuote THEN None
         ELSE Some(IF inWord THEN Append(out, cur) ELSE out)
    ELSE IF inQuote
         THEN IF s[i] = "'"
              THEN shlex_scan(s, i + 1, cur, TRUE, FALSE, out)
              ELSE shlex_scan(s, i + 1, Append(cur, s[i]), TRUE, TRUE, out)
         ELSE IF s[i] = "'"
              THEN shlex_scan(s, i + 1, cur, TRUE, TRUE, out)
              ELSE IF s[i] = " "
                   THEN IF inWord
                        THEN shlex_scan(s, i + 1, <<>>, FALSE, FALSE, Append(out, cur))
                        ELSE shlex_scan(s, i + 1, cur, FALSE, FALSE, out)
                   ELSE shlex_scan(s, i + 1, Append(cur, s[i]), TRUE, FALSE, out)

shlex_split(s) == shlex_scan(s, 1, <<>>, FALSE, FALSE, <<>>)

\* cargo_platform::Platform::from_str on the selectors of the model:
\* a plain name parses as Platform::Name, cfg(..) as Platform::Cfg, and a
\* name holding a character outside [A-Za-z0-9_.-] is an error.
Platform_from_str(selector) ==
    CASE selector = THUMB -> [ok |-> TRUE, kind |-> "name"]
      [] selector = RISCV -> [ok |-> TRUE, kind |-> "name"]
      [] selector = "cfg(all())" -> [ok |-> TRUE, kind |-> "cfg_true"]
      [] selector = "cfg(unix)" -> [ok |-> TRUE, kind |-> "cfg_false"]
      [] OTHER -> [ok |-> FALSE, kind |-> "error"]

\* Platform::matches(target, &[]): a name matches by equality, a cfg
\* expression is evaluated over the empty cfg list.
Platform_matches(selector, target) ==
    CASE Platform_from_str(selector).kind = "name" -> selector = target
      [] Platform_from_str(selector).kind = "cfg_true" -> TRUE
      [] OTHER -> FALSE

\* The closure of the first filter of conf::find_probe_args.
selector_kept(selector, target) ==
    IF target = None THEN TRUE
    ELSE IF ~Platform_from_str(selector).ok THEN TRUE
    ELSE Platform_matches(selector, target[1])

\* v.get("runner").and_then(|v| v.as_str()) on a `target` entry's value.
runner_str(val) ==
    IF val.kind = "table" /\ val.runner.kind = "string"
    THEN Some(val.runner.str) ELSE None

\* filter_map over a sequence of Options.
RECURSIVE flatten(_)
flatten(opts) ==
    IF opts = <<>> THEN <<>>
    ELSE opts[1] \o flatten(Tail(opts))

\* conf::find_build_target
find_build_target(cfg) ==
    IF cfg.build.kind = "table" /\ cfg.build.target.kind = "string"
    THEN Some(cfg.build.target.str)
    ELSE None

\* conf::find_probe_args
conf_find_probe_args(cfg, target) ==
    IF cfg.target.kind # "table" THEN Ok(<<>>)
    ELSE
      LET kept == SelectSeq(cfg.target.entries,
                            LAMBDA e : selector_kept(e.selector, target))
          strs == flatten([i \in 1..Len(kept) |-> runner_str(kept[i].val)])
          runners == flatten([i \in 1..Len(strs) |-> strip_prefix(strs[i], PROBE_RS_RUN)])
      IN IF Len(runners) > 1
         THEN Err(<<"found more than one runner configuration">>)
         ELSE IF Len(runners) # 1 THEN Ok(<<>>)
         ELSE IF shlex_split(runners[1]) = None
              THEN Err(<<"could not parse probe-rs arguments">>)
              ELSE Ok(shlex_split(runners[1])[1])

\* main.rs find_probe_args(config: &Option<Table>)
main_find_probe_args(cfgOpt) ==
    IF cfgOpt = None \/ cfgOpt[1].target.kind # "table" THEN Ok(<<>>)
    ELSE
      LET ents == cfgOpt[1].target.entries
          strs == flatten([i \in 1..Len(ents) |-> runner_str(ents[i].val)])
          runners == flatten([i \in 1..Len(strs) |-> strip_prefix(strs[i], PROBE_RS_RUN)])
          \* try_into::<[_; 1]>().ok().map(shlex::split).unwrap_or_default()
          split == IF Len(runners) = 1 THEN shlex_split(runners[1]) ELSE None
      IN IF split = None
         THEN Err(<<"could not parse probe-rs arguments">>)
         ELSE Ok(split[1])

\* ------------------------------------------------------------ lib.rs
\* WalkDir::max_depth
MaxDepth == 4

\* WalkDir::new(base).max_depth(4).into_iter().filter_map(|e| e.ok())
\*     .filter(|e| e.file_type().is_file())
\* An entry's depth below base is the length of its directory chain plus one.
target_files(walk) ==
    SelectSeq(walk, LAMBDA e : Len(e.dir) + 1 <= MaxDepth /\ e.kind = "file")

\* Variant of the name test below in which no names means no constraint.
matches_name_or_empty(e, names) ==
    names = <<>> \/ \E i \in 1..Len(names) : names[i] = e.name

\* binary_names.iter().any(|x| x.as_str() == e.file_name())
matches_name(e, names) == \E i \in 1..Len(names) : names[i] = e.name

\* Variant of the component test below with the comparison inverted.
matches_component_ne(e, opt) ==
    opt = None \/ \E i \in 1..Len(e.dir) : e.dir[i] # opt[1]

\* path.iter().any(|c| c == m), path being the entry's directory chain
\* relative to base; is_none_or on the Option.
matches_component(e, opt) ==
    opt = None \/ \E i \in 1..Len(e.dir) : e.dir[i] = opt[1]

\* Variant of the selection below that keeps the least key.
RECURSIVE min_by_key(_, _)
min_by_key(es, best) ==
    IF es = <<>> THEN best
    ELSE IF best = None \/ es[1].stat[1] <= best[1].stat[1]
         THEN min_by_key(Tail(es), Some(es[1]))
         ELSE min_by_key(Tail(es), best)

\* Iterator::max_by_key: the last element with the greatest key.
RECURSIVE max_by_key(_, _)
max_by_key(es, best) ==
    IF es = <<>> THEN best
    ELSE IF best = None \/ es[1].stat[1] >= best[1].stat[1]
         THEN max_by_key(Tail(es), Some(es[1]))
         ELSE max_by_key(Tail(es), best)

\* e.into_path(): the components below base, the file name last.
into_path(e) == Append(e.dir, e.name)

\* find_executable: panics (metadata().unwrap()) when the modification time
\* of an entry that passed the filters cannot be read.
find_executable(walk, names, build_mode, build_target) ==
    LET executables ==
          SelectSeq(target_files(walk),
                    LAMBDA e : /\ matches_name(e, names)
                               /\ matches_component(e, build_mode)
                               /\ matches_component(e, build_target))
        best == max_by_key(executables, None)
    IN IF \E i \in 1..Len(executables) : executables[i].stat = None
       THEN [panic |-> TRUE, path |-> None]
       ELSE [panic |-> FALSE,
             path |-> IF best = None THEN None ELSE Some(into_path(best[1]))]

\* Variant of the check below with the second flag negated.
conflicting_mode_flags_negated(a) == a.release /\ ~a.debug

\* lib.rs:14 / main.rs:58
conflicting_mode_flags(a) == a.release /\ a.debug

\* lib.rs:18 / main.rs:62
conflicting_selectors(a) == a.bin # None /\ a.example # None

\* Variant of the condition below with the conjunction for the disjunction.
needs_config_and(a) == a.probe_args = <<>> /\ a.target = None

\* lib.rs:30 / main.rs:74: whether the configuration file is consulted.
needs_config(a) == a.probe_args = <<>> \/ a.target = None

\* conf::load_config
load_config(file) ==
    CASE file.state = "missing" -> Ok(None)
      [] file.state = "unreadable" -> Err(<<"could not read", ".cargo/config.toml">>)
      [] file.state = "malformed" -> Err(<<"could not parse", ".cargo/config.toml">>)
      [] OTHER -> Ok(Some(file.table))

\* main.rs load_config: the messages are plain literals, not formatted.
main_load_config(file) ==
    CASE file.state = "missing" -> Ok(None)
      [] file.state = "unreadable" -> Err(<<"could not read {path}">>)
      [] file.state = "malformed" -> Err(<<"could not parse {path}">>)
      [] OTHER -> Ok(Some(file.table))

\* targets.filter(|t| t.is_bin() || t.is_example()).map(|t| t.name)
declared_names(pkg) ==
    LET bins == SelectSeq(pkg.targets, LAMBDA t : t.kind \in {"bin", "example"})
    IN [i \in 1..Len(bins) |-> bins[i].name]

\* lib.rs:36-43 / main.rs:172-180
binary_names(a, pkg) ==
    IF a.bin # None THEN <<a.bin[1]>>
    ELSE IF a.example # None THEN <<a.example[1]>>
    ELSE declared_names(pkg)

\* lib.rs:45-51 / main.rs:153-159
resolve_build_mode(a) ==
    IF a.release THEN Some("release")
    ELSE IF a.debug THEN Some("debug")
    ELSE None

\* lib.rs:53-61 / main.rs:161-170
resolve_build_target(a, cfgOpt) ==
    IF a.target = None
    THEN IF cfgOpt # None THEN find_build_target(cfgOpt[1]) ELSE None
    ELSE a.target

\* main.rs resolve_filters (lib.rs computes the same three values inline)
resolve_filters(a, pkg, cfgOpt) ==
    [names |-> binary_names(a, pkg),
     build_mode |-> resolve_build_mode(a),
     build_target |-> resolve_build_target(a, cfgOpt)]

\* lib.rs:63-71
attach_probe_args(a, cfgOpt, build_target) ==
    IF a.probe_args = <<>>
    THEN IF cfgOpt # None THEN conf_find_probe_args(cfgOpt[1], build_target)
         ELSE Ok(<<>>)
    ELSE Ok(a.probe_args)

\* main.rs:82-86
main_probe_args(a, cfgOpt) ==
    IF a.probe_args = <<>> THEN main_find_probe_args(cfgOpt)
    ELSE Ok(a.probe_args)

\* Whether the step above calls find_probe_args at all.
extraction_called(e, a, cfgOpt) ==
    a.probe_args = <<>> /\ (e = "actual_main" \/ cfgOpt # None)

\* Variant of the command line below with the path before the arguments.
exec_argv_path_first(pa, exe) ==
    [program |-> "probe-rs", args |-> <<<<"attach">>, exe>> \o pa]

\* Command::new("probe-rs").arg("attach").args(probe_args).arg(executable)
exec_argv(pa, exe) ==
    [program |-> "probe-rs", args |-> <<<<"attach">>>> \o pa \o <<exe>>]

\* ------------------------------------------------------------ inputs
Args ==
    [release : BOOLEAN, debug : BOOLEAN,
     target : {None, Some(THUMB)},
     bin : {None, Some("app")},
     example : {None, Some("demo")},
     probe_args : {<<>>, <<<<"--chip">>, <<"nRF52">>>>}]

DefaultArgs ==
    [release |-> FALSE, debug |-> FALSE, target |-> None, bin |-> None,
     example |-> None, probe_args |-> <<>>]

\* Root packages `cargo metadata` may report.
Packages ==
    { [name |-> "blinky", targets |-> <<[name |-> "app", kind |-> "bin"],
                                        [name |-> "demo", kind |-> "example"]>>],
      [name |-> "blinky", targets |-> <<[name |-> "app", kind |-> "bin"],
                                        [name |-> "blinky", kind |-> "lib"]>>],
      [name |-> "drivers", targets |-> <<[name |-> "drivers", kind |-> "lib"],
                                         [name |-> "smoke", kind |-> "test"]>>] }

\* --- configuration trees
BuildValues ==
    { [kind |-> "absent", target |-> NoRunner],
      [kind |-> "other", target |-> NoRunner],
      [kind |-> "table", target |-> NoRunner],
      [kind |-> "table", target |-> OtherRunner],
      [kind |-> "table", target |-> StrRunner(THUMB)],
      [kind |-> "table", target |-> StrRunner(RISCV)] }

Selectors == <<"cfg(all())", "cfg(unix)", RISCV, "thumb v7", THUMB>>

EntryValues ==
    { [kind |-> "other", runner |-> NoRunner],
      [kind |-> "table", runner |-> NoRunner],
      [kind |-> "table", runner |-> OtherRunner],
      [kind |-> "table", runner |-> StrRunner(RUN_STM32)],
      [kind |-> "table", runner |-> StrRunner(RUN_NRF52)],
      [kind |-> "table", runner |-> StrRunner(RUN_UNBALANCED)],
      [kind |-> "table", runner |-> StrRunner(RUN_BARE)],
      [kind |-> "table", runner |-> StrRunner(RUN_GDB)] }

\* Strictly increasing index sequences: a table iterates in key order.
IndexSeqs(n, k) ==
    { s \in [1..k -> 1..n] : \A i \in 1..k : \A j \in 1..k : i < j => s[i] < s[j] }

\* The `target` tables with exactly k entries.
TargetEntries(k) ==
    { [i \in 1..k |-> [selector |-> Selectors[ix[i]], val |-> vs[i]]] :
        ix \in IndexSeqs(Len(Selectors), k), vs \in [1..k -> EntryValues] }

TargetValues ==
    { [kind |-> "absent", entries |-> <<>>], [kind |-> "other", entries |-> <<>>] }
    \cup { [kind |-> "table", entries |-> es] :
             es \in UNION { TargetEntries(k) : k \in 0..MaxEntries } }

EmptyTable ==
    [build |-> [kind |-> "absent", target |-> NoRunner],
     target |-> [kind |-> "absent", entries |-> <<>>]]

E1(sel, r) == [selector |-> sel, val |-> [kind |-> "table", runner |-> StrRunner(r)]]

\* `target` tables of the whole-run specification.
RunTargetValues ==
    { [kind |-> "absent", entries |-> <<>>],
      [kind |-> "table", entries |-> <<>>],
      [kind |-> "table", entries |-> <<E1(THUMB, RUN_STM32)>>],
      [kind |-> "table", entries |-> <<E1(THUMB, RUN_GDB)>>],
      [kind |-> "table", entries |-> <<E1(RISCV, RUN_UNBALANCED)>>],
      [kind |-> "table", entries |-> <<E1(RISCV, RUN_NRF52), E1(THUMB, RUN_STM32)>>] }

RunBuildValues ==
    { [kind |-> "absent", target |-> NoRunner],
      [kind |-> "table", target |-> OtherRunner],
      [kind |-> "table", target |-> StrRunner(THUMB)] }

RunFiles ==
    { [state |-> st, table |-> EmptyTable] : st \in {"missing", "unreadable", "malformed"} }
    \cup { [state |-> "ok", table |-> [build |-> b, target |-> t]] :
             b \in RunBuildValues, t \in RunTargetValues }

\* --- build output trees
\* Places below the output root: directory chain, file name, entry kind.
Pool ==
    << [dir |-> <<"debug">>, name |-> "app", kind |-> "file"],
       [dir |-> <<"release">>, name |-> "app", kind |-> "file"],
       [dir |-> <<THUMB, "release">>, name |-> "app", kind |-> "file"],
       [dir |-> <<"debug", THUMB, "examples">>, name |-> "demo", kind |-> "file"],
       [dir |-> <<THUMB, "debug", "build", "out">>, name |-> "app", kind |-> "file"],
       [dir |-> <<"debug", "deps">>, name |-> "app", kind |-> "dir"] >>

\* What reading an entry's modification time may give: an error or a time.
Stats == {None} \cup { Some(t) : t \in 1..MaxMtime }

WithStat(p, st) == [dir |-> p.dir, name |-> p.name, kind |-> p.kind, stat |-> st]

\* Trees of at most MaxFiles entries at distinct places; a directory's
\* modification time is never read, so it carries one value.
Trees ==
    UNION { { { WithStat(Pool[i], st[i]) : i \in ix } :
                st \in { f \in [ix -> Stats] :
                           \A i \in ix : Pool[i].kind # "file" => f[i] = Some(1) } } :
            ix \in { x \in SUBSET (1..Len(Pool)) : Cardinality(x) <= MaxFiles } }

RunTrees ==
    SUBSET { WithStat(Pool[1], Some(1)), WithStat(Pool[2], Some(2)),
             WithStat(Pool[3], None) }

\* The orders in which a walk may yield the entries of a tree.
RECURSIVE Orderings(_)
Orderings(S) ==
    IF S = {} THEN {<<>>}
    ELSE UNION { { <<x>> \o s : s \in Orderings(S \ {x}) } : x \in S }

NoFilters == [names |-> <<>>, build_mode |-> None, build_target |-> None]

\* ------------------------------------------------------------ the run
Blank ==
    /\ package = None
    /\ config = None
    /\ filters = NoFilters
    /\ probe_args = <<>>
    /\ executable = None
    /\ error = <<>>
    /\ argv = None
    /\ trace = <<>>
    /\ stderr = <<>>
    /\ exitCode = None

\* A whole run, from the parsed arguments on.
Init ==
    /\ entry \in {"attach", "actual_main"}
    /\ args \in Args
    /\ cfgFile \in RunFiles
    /\ tree \in RunTrees
    /\ pc = "start"
    /\ Blank

\* return Err(msg)
Fail(msg) == error' = msg /\ pc' = "returned"

\* lib.rs:14-20 / main.rs:58-64
CheckFlags ==
    /\ pc = "start"
    /\ IF conflicting_mode_flags(args)
       THEN Fail(<<"the release and debug flags may not be used together">>)
       ELSE IF conflicting_selectors(args)
            THEN Fail(<<"the bin and example options may not be used together">>)
            ELSE pc' = "metadata" /\ error' = error
    /\ UNCHANGED <<entry, args, cfgFile, package, config, filters, probe_args,
                   tree, executable, argv, trace, stderr, exitCode>>

\* lib.rs:22-28 / main.rs:66-72: the metadata query fails, reports no root
\* package, or reports one.
QueryMetadata ==
    /\ pc = "metadata"
    /\ trace' = Append(trace, "cargo metadata")
    /\ \/ Fail(<<"cargo metadata failed">>) /\ package' = package
       \/ /\ Fail(<<"could not determine which package to use binaries from">>)
          /\ package' = package
       \/ \E p \in Packages :
            package' = Some(p) /\ pc' = "config" /\ error' = error
    /\ UNCHANGED <<entry, args, cfgFile, config, filters, probe_args,
                   tree, executable, argv, stderr, exitCode>>

\* lib.rs:30-34 / main.rs:74-78
LoadConfig ==
    /\ pc = "config"
    /\ IF needs_config(args)
       THEN LET r == IF entry = "attach" THEN load_config(cfgFile)
                     ELSE main_load_config(cfgFile)
            IN /\ trace' = Append(trace, "read config")
               /\ IF r.ok
                  THEN config' = r.val /\ pc' = "filters" /\ error' = error
                  ELSE config' = config /\ Fail(r.err)
       ELSE config' = None /\ pc' = "filters" /\ UNCHANGED <<trace, error>>
    /\ UNCHANGED <<entry, args, cfgFile, package, filters, probe_args,
                   tree, executable, argv, stderr, exitCode>>

\* lib.rs:36-61 / main.rs:80
ResolveFilters ==
    /\ pc = "filters"
    /\ filters' = resolve_filters(args, package[1], config)
    /\ pc' = "probe_args"
    /\ UNCHANGED <<entry, args, cfgFile, package, config, probe_args,
                   tree, executable, error, argv, trace, stderr, exitCode>>

\* lib.rs:63-71 / main.rs:82-86
ExtractProbeArgs ==
    /\ pc = "probe_args"
    /\ LET r == IF entry = "attach"
                THEN attach_probe_args(args, config, filters.build_target)
                ELSE main_probe_args(args, config)
       IN /\ trace' = IF extraction_called(entry, args, config)
                      THEN Append(trace, "find_probe_args") ELSE trace
          /\ IF r.ok
             THEN probe_args' = r.val /\ pc' = "locate" /\ error' = error
             ELSE probe_args' = probe_args /\ Fail(r.err)
    /\ UNCHANGED <<entry, args, cfgFile, package, config, filters,
                   tree, executable, argv, stderr, exitCode>>

\* lib.rs:73-80 / main.rs:88-90.  The walk yields the tree's entries in an
\* order the file system decides.  A panic ends the process with status 101.
Locate ==
    /\ pc = "locate"
    /\ trace' = Append(trace, "walk")
    /\ \E walk \in Orderings(tree) :
         LET r == find_executable(walk, filters.names, filters.build_mode,
                                  filters.build_target)
         IN IF r.panic
            THEN /\ pc' = "panicked"
                 /\ exitCode' = Some("101")
                 /\ UNCHANGED <<executable, error>>
            ELSE IF r.path = None
                 THEN /\ Fail(<<"no matching executable found for package",
                                package[1].name>>)
                      /\ UNCHANGED <<executable, exitCode>>
                 ELSE /\ executable' = r.path
                      /\ pc' = "exec"
                      /\ UNCHANGED <<error, exitCode>>
    /\ UNCHANGED <<entry, args, cfgFile, package, config, filters, probe_args,
                   tree, argv, stderr>>

\* lib.rs:82-88 / main.rs:92-98: exec replaces the process, and returns
\* only when it failed.
Dispatch ==
    /\ pc = "exec"
    /\ trace' = Append(trace, "exec")
    /\ argv' = Some(exec_argv(probe_args, executable[1]))
    /\ \/ pc' = "handed_off" /\ error' = error
       \/ Fail(<<"exec failed">>)
    /\ UNCHANGED <<entry, args, cfgFile, package, config, filters, probe_args,
                   tree, executable, stderr, exitCode>>

\* main.rs:18-26
Report ==
    /\ pc = "returned"
    /\ entry = "actual_main"
    /\ stderr' = <<"error: ">> \o error
    /\ exitCode' = Some("FAILURE")
    /\ pc' = "exited"
    /\ UNCHANGED <<entry, args, cfgFile, package, config, filters, probe_args,
                   tree, executable, error, argv, trace>>

Next ==
    \/ CheckFlags
    \/ QueryMetadata
    \/ LoadConfig
    \/ ResolveFilters
    \/ ExtractProbeArgs
    \/ Locate
    \/ Dispatch
    \/ Report

Spec == Init /\ [][Next]_vars

\* ------------------------------------------------------------ the steps alone
\* The state in which a run reaches runner extraction: no arguments to
\* forward were given, the configuration file was read and holds `cfg`.
RunnerInit ==
    /\ entry \in {"attach", "actual_main"}
    /\ \E t \in {None, Some(THUMB)} : args = [DefaultArgs EXCEPT !.target = t]
    /\ \E tv \in TargetValues, b \in {None, Some(THUMB), Some(RISCV)} :
         cfgFile = [state |-> "ok",
                    table |-> [build |-> IF b = None \/ args.target # None
                                         THEN [kind |-> "absent", target |-> NoRunner]
                                         ELSE [kind |-> "table", target |-> StrRunner(b[1])],
                               target |-> tv]]
    /\ tree = {}
    /\ package = Some(CHOOSE p \in Packages : Len(declared_names(p)) = 2)
    /\ config = Some(cfgFile.table)
    /\ filters = resolve_filters(args, package[1], config)
    /\ pc = "probe_args"
    /\ trace = <<"cargo metadata", "read config">>
    /\ probe_args = <<>>
    /\ executable = None
    /\ error = <<>>
    /\ argv = None
    /\ stderr = <<>>
    /\ exitCode = None

RunnerNext == ExtractProbeArgs

RunnerSpec == RunnerInit /\ [][RunnerNext]_vars

\* The state in which a run reaches the directory walk: the filters are
\* resolved from the arguments and the package, over any build output tree.
LocateInit ==
    /\ entry \in {"attach", "actual_main"}
    /\ args \in { a \in Args : /\ ~conflicting_mode_flags(a)
                               /\ ~conflicting_selectors(a)
                               /\ a.example = None
                               /\ a.probe_args # <<>> }
    /\ cfgFile = [state |-> "missing", table |-> EmptyTable]
    /\ tree \in Trees
    /\ package \in { Some(p) : p \in Packages }
    /\ args.bin # None => Len(declared_names(package[1])) = 2
    /\ Len(declared_names(package[1])) # 1
    /\ config = None
    /\ filters = resolve_filters(args, package[1], config)
    /\ pc = "locate"
    /\ trace = IF needs_config(args) THEN <<"cargo metadata", "read config">>
               ELSE <<"cargo metadata">>
    /\ probe_args = args.probe_args
    /\ executable = None
    /\ error = <<>>
    /\ argv = None
    /\ stderr = <<>>
    /\ exitCode = None

LocateNext == Locate

LocateSpec == LocateInit /\ [][LocateNext]_vars

\* ------------------------------------------------------------ properties
Range(f) == { f[i] : i \in DOMAIN f }
Did(op) == op \in Range(trace)
Count(op) == Cardinality({ i \in DOMAIN trace : trace[i] = op })
PathOf(e) == e.dir \o <<e.name>>

\* The filters are resolved once the run is past ResolveFilters.
Resolved ==
    pc \in {"probe_args", "locate", "exec", "handed_off", "panicked"} \/ Did("walk")

\* Section 4.4 of the specification, steps 1 to 4, on the tree itself.
Survives(e) ==
    /\ e.kind = "file"
    /\ Len(e.dir) < 4
    /\ e.name \in Range(filters.names)
    /\ filters.build_mode = None \/ filters.build_mode[1] \in Range(e.dir)
    /\ filters.build_target = None \/ filters.build_target[1] \in Range(e.dir)

Survivors == { e \in tree : Survives(e) }
Readable == { e \in Survivors : e.stat # None }
NoMatch == <<"no matching executable found for package", package[1].name>>

\* C1: when both the release and the debug flag are given, the run fails
\* with the conflicting-flags error and never queries the package metadata,
\* reads the configuration, extracts a runner or walks a directory.
C1_ConflictBeforeAnyAccess ==
    (args.release /\ args.debug) =>
        /\ trace = <<>>
        /\ package = None /\ config = None /\ executable = None /\ argv = None
        /\ pc \in {"start", "returned", "exited"}
        /\ pc # "start" =>
             error = <<"the release and debug flags may not be used together">>

C1_Witness ==
    /\ args.release /\ args.debug /\ args.bin # None /\ args.example # None
    /\ pc = "exited"

\* C2: when the modification time of every surviving candidate can be read,
\* find_executable returns a survivor whose modification time is the greatest
\* of all survivors, and returns None exactly when there is no survivor.
C2_MostRecentSurvivor ==
    (Did("walk") /\ Readable = Survivors) =>
        /\ pc # "panicked"
        /\ (executable = None) <=> (Survivors = {})
        /\ executable = None => pc \in {"returned", "exited"} /\ error = NoMatch
        /\ executable # None =>
             \E e \in Survivors :
                /\ PathOf(e) = executable[1]
                /\ \A q \in Survivors : q.stat[1] <= e.stat[1]

C2_Witness ==
    /\ Did("walk") /\ filters.build_mode = None /\ filters.build_target = None
    /\ executable = Some(<<"release", "app">>)
    /\ \E o \in Survivors : PathOf(o) = <<"debug", "app">> /\ o.stat = Some(1)
    /\ \E n \in Survivors : PathOf(n) = <<"release", "app">> /\ n.stat = Some(2)

\* C3: a returned file has a name of the filter set, and its directory chain
\* below the output root holds the build mode and the target triple when
\* these are set, at any position.
C3_ResultMeetsFilters ==
    executable # None =>
        LET p == executable[1]
            dir == SubSeq(p, 1, Len(p) - 1)
        IN /\ p[Len(p)] \in Range(filters.names)
           /\ filters.build_mode # None => filters.build_mode[1] \in Range(dir)
           /\ filters.build_target # None => filters.build_target[1] \in Range(dir)
           /\ \E e \in tree : PathOf(e) = p /\ e.kind = "file"

C3_Witness ==
    /\ filters.build_mode = Some("debug")
    /\ executable = Some(<<"debug", "app">>)
    /\ \E o \in tree : PathOf(o) = <<"debug", "app">> /\ o.stat = Some(1)
    /\ \E n \in tree : PathOf(n) = <<"release", "app">> /\ n.stat = Some(2)

\* Section 4.3 of the specification, steps 1 to 4: the entries of the
\* `target` table that are kept and carry a "probe-rs run " runner.
Applies(e) ==
    /\ \/ filters.build_target = None
       \/ ~Platform_from_str(e.selector).ok
       \/ Platform_matches(e.selector, filters.build_target[1])
    /\ e.val.kind = "table"
    /\ e.val.runner.kind = "string"
    /\ Len(e.val.runner.str) >= 4
    /\ SubSeq(e.val.runner.str, 1, 4) = <<"probe-rs", " ", "run", " ">>

Applying ==
    IF config = None \/ config[1].target.kind # "table" THEN {}
    ELSE { i \in DOMAIN config[1].target.entries : Applies(config[1].target.entries[i]) }

\* C4: with two or more applying runner entries, extraction fails with the
\* ambiguous-runner error.
C4_AmbiguousRunner ==
    (Did("find_probe_args") /\ Cardinality(Applying) >= 2) =>
        /\ pc = "returned"
        /\ error = <<"found more than one runner configuration">>

\* C5: with no applying runner entry, extraction gives the empty argument
\* list, no error, and the run goes on to the directory walk.
C5_NoRunnerIsEmpty ==
    (Did("find_probe_args") /\ Applying = {}) =>
        /\ probe_args = <<>>
        /\ pc = "locate" \/ Did("walk")

\* The words of the two well-formed runner lines of the model.
Words(r) ==
    IF r = RUN_STM32 THEN << <<"--chip">>, <<"STM32">> >>
    ELSE << <<"--chip">>, <<"nRF52", " ", "DK">> >>

\* C6: with a known build target, one applying entry and a runner entry under
\* a selector naming another triple, extraction yields the words of the
\* applying entry's runner.
C6_OtherTripleIgnored ==
    \A i \in Applying :
        LET es == config[1].target.entries
        IN ( /\ Did("find_probe_args")
             /\ filters.build_target # None
             /\ Applying = {i}
             /\ es[i].val.runner.str \in {RUN_STM32, RUN_NRF52}
             /\ \E j \in DOMAIN es :
                  /\ Platform_from_str(es[j].selector).kind = "name"
                  /\ es[j].selector # filters.build_target[1]
                  /\ runner_str(es[j].val) \in {Some(RUN_STM32), Some(RUN_NRF52)} )
           => /\ pc = "locate"
              /\ probe_args = Words(es[i].val.runner.str)

\* C7: a file whose modification time cannot be read is skipped: the search
\* never aborts and returns the most recent readable survivor, or None.
C7_UnreadableSkipped ==
    Did("walk") =>
        /\ pc # "panicked"
        /\ (executable = None) <=> (Readable = {})
        /\ executable # None =>
             \E e \in Readable :
                /\ PathOf(e) = executable[1]
                /\ \A q \in Readable : q.stat[1] <= e.stat[1]

\* The string at `build.target` of the configuration file on disk.
FileBuildTarget ==
    IF /\ cfgFile.state = "ok"
       /\ cfgFile.table.build.kind = "table"
       /\ cfgFile.table.build.target.kind = "string"
    THEN Some(cfgFile.table.build.target.str)
    ELSE None

NothingDeclared ==
    /\ package # None
    /\ \A i \in DOMAIN package[1].targets :
         package[1].targets[i].kind \notin {"bin", "example"}
    /\ args.bin = None /\ args.example = None

\* C9: with no declared binary or example and no explicit name, the name set
\* is empty, and a run that reaches the locator fails there with the
\* no-matching-executable error naming the package; it never hands off.
C9_EmptyNamesNoMatch ==
    NothingDeclared =>
        /\ Resolved => filters.names = <<>>
        /\ pc \notin {"exec", "handed_off", "panicked"}
        /\ argv = None
        /\ Did("walk") =>
             /\ executable = None
             /\ pc \in {"returned", "exited"}
             /\ error = <<"no matching executable found for package", "drivers">>

C9_Witness ==
    /\ NothingDeclared /\ Did("walk") /\ pc = "exited"
    /\ \E e \in tree : e.stat = None
    /\ \E e \in tree : e.stat # None

\* C10: a run ends handed off to probe-rs, exactly once, with "attach", the
\* forwarded arguments and the located path last, or it ends with an error
\* (reported with a failure status); no handoff follows an error or happens
\* without a located path.
C10_HandoffOrFailure ==
    /\ Count("exec") <= 1
    /\ (argv # None) <=> Did("exec")
    /\ argv # None =>
         /\ executable # None
         /\ \E e \in tree : PathOf(e) = executable[1]
         /\ argv[1].program = "probe-rs"
         /\ argv[1].args = << <<"attach">> >> \o probe_args \o executable
         /\ error \in {<<>>, <<"exec failed">>}
         /\ trace[Len(trace)] = "exec"
    /\ pc = "handed_off" => argv # None /\ error = <<>> /\ exitCode = None
    /\ (error # <<>>) <=> (pc \in {"returned", "exited"})
    /\ pc = "exited" =>
         exitCode = Some("FAILURE") /\ stderr = <<"error: ">> \o error
    /\ pc = "panicked" => argv = None /\ exitCode = Some("101")

C10_Witness ==
    /\ pc = "handed_off"
    /\ Len(probe_args) = 2
    /\ argv[1].args[Len(argv[1].args)] = executable[1]

====
